---- MODULE Spec2Model ----
(***************************************************************************)
(* Model of the FraudCallDetector conversion scripts (src/scripts).        *)
(*                                                                         *)
(* Spec          the five scripts run one after another against the common *)
(*               models directory; every statement that can raise is a     *)
(*               step that either succeeds or fails.                       *)
(* SpecPool      the mean pooling and normalisation of the ONNX inference  *)
(*               test, over small integer hidden states.                   *)
(* SpecClassify  the cosine-similarity classification test of the two      *)
(*               convert_minilm_to_tflite scripts.                         *)
(***************************************************************************)
EXTENDS Integers, Sequences, FiniteSets, TLC

VARIABLES
    files,              \* common models directory: path -> file content
    writer,             \* per path: the script and run that wrote it last
    script,             \* the script of the current (or last) run
    pc,                 \* next step of the run, or "idle" / "done" / "aborted"
    run,                \* number of runs started so far
    trace,              \* steps taken by the current run, with their outcome
    out,                \* what the current run has printed
    hashseed,           \* the process's string-hash key (simple script)
    tokenizer,          \* the tokenizer loaded by the run
    final_model_path,   \* convert_minilm_to_onnx.py: final_model_path
    mem_scam,           \* in-memory scam_embeddings of the run
    mem_legit,          \* in-memory legitimate_embeddings of the run
    last_hidden_state,  \* pooling: outputs[0]
    attention_mask,     \* pooling: inputs["attention_mask"]
    input_mask_expanded,
    sum_embeddings,
    sum_mask,
    embedding,
    ppc,                \* pooling: position in the inference test block
    test_embedding,     \* classification: the query embedding
    scam_embeddings,    \* classification: reference rows
    legitimate_embeddings,
    scam_sim,
    legit_sim,
    classification,
    cpc                 \* classification: position in the test block

scriptVars == <<files, writer, script, pc, run, trace, out, hashseed, tokenizer,
                final_model_path, mem_scam, mem_legit>>
poolVars == <<last_hidden_state, attention_mask, input_mask_expanded,
              sum_embeddings, sum_mask, embedding, ppc>>
classVars == <<test_embedding, scam_embeddings, legitimate_embeddings,
               scam_sim, legit_sim, classification, cpc>>
vars == <<scriptVars, poolVars, classVars>>

----------------------------------------------------------------------------
(* Bounds *)

MaxRuns == 2          \* runs of scripts in one behaviour
MaxHashSeed == 1      \* string-hash keys 0..MaxHashSeed
MaxBase == 2          \* tokens in a tokenizer's base vocabulary, at most
MaxAdded == 1         \* tokens a tokenizer may hold beyond its base vocabulary
SeqLen == 2           \* sequence positions of the pooled tensor
HiddenDim == 2        \* hidden dimensions of the pooled tensor
MaxRefs == 2          \* rows of a reference set in the classification test

----------------------------------------------------------------------------
(* Generic helpers *)

Abs(x) == IF x < 0 THEN -x ELSE x

Sign(x) == IF x < 0 THEN -1 ELSE IF x = 0 THEN 0 ELSE 1

RECURSIVE GCD(_, _)
GCD(a, b) == IF b = 0 THEN Abs(a) ELSE GCD(b, a % Abs(b))

RECURSIVE SumSeq(_)
SumSeq(s) == IF s = <<>> THEN 0 ELSE Head(s) + SumSeq(Tail(s))

----------------------------------------------------------------------------
(* Exact arithmetic for the float computations *)

\* A rational n/d in lowest terms with d > 0, as <<n, d>>.
Rat(n, d) ==
    LET g == GCD(n, d)
    IN  IF d < 0 THEN <<(-n) \div g, (-d) \div g>> ELSE <<n \div g, d \div g>>

RECURSIVE ProductOf(_)
ProductOf(seq) == IF seq = <<>> THEN 1 ELSE Head(seq) * ProductOf(Tail(seq))

\* The entries of a row of rationals over their common denominator.
Numerators(row) ==
    LET common == ProductOf([d \in DOMAIN row |-> row[d][2]])
    IN  [d \in DOMAIN row |-> row[d][1] * (common \div row[d][2])]

SumOfSquares(v) == SumSeq([d \in DOMAIN v |-> v[d] * v[d]])

\* A division by the sum of squares, the square root left out.
NormalizeBySquare(row) ==
    LET y == Numerators(row)
        normsq == SumOfSquares(y)
    IN  [d \in DOMAIN row |->
            IF normsq = 0 THEN <<0, 0, 0>>
            ELSE <<Sign(y[d])>> \o Rat(y[d] * y[d], normsq * normsq)]

\* One row of embedding / norm. An entry x / norm is kept exactly as
\* <<sign, n, d>>, standing for sign * sqrt(n / d) with n / d in lowest
\* terms; a zero norm gives 0 / 0 = nan in every entry, kept as <<0, 0, 0>>.
NormalizeRow(row) ==
    LET y == Numerators(row)
        normsq == SumOfSquares(y)
    IN  [d \in DOMAIN row |->
            IF normsq = 0 THEN <<0, 0, 0>>
            ELSE <<Sign(y[d])>> \o Rat(y[d] * y[d], normsq)]

----------------------------------------------------------------------------
(* The common models directory *)

OnnxPath == "minilm_l6_v2.onnx"
QuantizedPath == "minilm_l6_v2_quantized.onnx"
VocabPath == "vocab.txt"
ConfigPath == "tokenizer_config.json"
ScamPath == "scam_embeddings.npy"
LegitPath == "legitimate_embeddings.npy"
MiniLMTokenizerPath == "minilm_tokenizer"
SavedModelPath == "flan_t5_saved_model"

Paths == {OnnxPath, QuantizedPath, VocabPath, ConfigPath, ScamPath, LegitPath,
          MiniLMTokenizerPath, SavedModelPath}

Scripts == {"onnx", "tflite", "tflite_fixed", "simple", "flan_t5"}

\* A file is its format and its data, a sequence of <<tag, number>> items.
File(fmt, data) == [fmt |-> fmt, data |-> data]

NoFile == File("none", <<>>)

\* What a write interrupted by an exception leaves behind.
Truncated == File("truncated", <<>>)

NoWriter == [script |-> "none", run |-> 0]

----------------------------------------------------------------------------
(* The tokenizer, as far as the scripts read it *)

\* A tokenizer: `base` tokens in its base vocabulary (ids 0..base-1) and
\* `added` tokens added on top of it (ids base..base+added-1).
Tokenizers == {[base |-> b, added |-> a] : b \in 1..MaxBase, a \in 0..MaxAdded}

NoTokenizer == [base |-> 0, added |-> 0]

\* The token text (a code) of token id i among n tokens: not in id order.
TokenOf(i, n) == ((i + 1) % n) + 1

\* tokenizer.get_vocab(): the dict token -> id, added tokens included.
GetVocab(t) == {<<TokenOf(i, t.base + t.added), i>> : i \in 0..(t.base + t.added - 1)}

\* tokenizer.vocab_size: the size of the base vocabulary.
VocabSize(t) == t.base

\* A sort of dict items that orders them by the token text instead.
RECURSIVE SortedByToken(_)
SortedByToken(items) ==
    IF items = {} THEN <<>>
    ELSE LET m == CHOOSE x \in items : \A y \in items : x[1] <= y[1]
         IN  <<m>> \o SortedByToken(items \ {m})

\* sorted(vocab.items(), key=lambda x: x[1]): the items in ascending id order.
RECURSIVE SortedVocab(_)
SortedVocab(items) ==
    IF items = {} THEN <<>>
    ELSE LET m == CHOOSE x \in items : \A y \in items : x[2] <= y[2]
         IN  <<m>> \o SortedVocab(items \ {m})

\* The lines written to vocab.txt: one token per sorted item.
VocabLines(t) ==
    LET sorted_vocab == SortedVocab(GetVocab(t))
    IN  [i \in 1..Len(sorted_vocab) |-> <<"token", sorted_vocab[i][1]>>]

\* tokenizer_config as dumped to tokenizer_config.json (the fields that vary).
TokenizerConfig(t) == <<<<"vocab_size", VocabSize(t)>>, <<"max_length", 128>>>>

----------------------------------------------------------------------------
(* The pattern lists and the reference embeddings *)

\* Patterns are numbered by their place in convert_minilm_to_tflite_fixed.py
\* (scam 1..24, legitimate 25..36); the other two scripts list a subsequence.
ScamPatterns(s) ==
    IF s = "tflite_fixed" THEN [i \in 1..24 |-> i]
    ELSE <<1, 2, 4, 5, 7, 8, 10, 11, 13, 14, 16, 17, 19, 20, 22, 23>>

LegitPatterns(s) ==
    IF s = "tflite_fixed" THEN [i \in 1..12 |-> 24 + i]
    ELSE <<25, 26, 28, 29, 31, 32, 33, 34>>

\* model.encode(patterns): one row per pattern, a function of the pattern.
Encode(patterns) == [i \in 1..Len(patterns) |-> <<"minilm", patterns[i], 0>>]

HashSeeds == 0..MaxHashSeed

\* hash(pattern) of a str: keyed by the process's hash seed, signed.
StrHash(key, p) ==
    IF key % 2 = 0 THEN p * 1000003 + key ELSE -(p * 1000003 + key)

\* h % (2**32), kept as its two 16-bit halves <<high, low>>.
Mod2p32(h) == <<(h \div 65536) % 65536, h % 65536>>

\* np.random.seed(hash(pattern) % (2**32)): the seed of one pattern.
PatternSeed(key, p) == Mod2p32(StrHash(key, p))

\* np.random.randn(EMBEDDING_DIM) under a seed: a vector fixed by the seed.
\* Its entries, as rationals, differ from one another, so it is never zero.
Randn(seed) == [d \in 1..HiddenDim |-> <<((seed[2] + 3 * d) % 5) - 2, 1>>]

\* The placeholder rows: randn under the pattern's seed, divided by its norm.
Placeholder(key, patterns) ==
    [i \in 1..Len(patterns) |->
        LET seed == PatternSeed(key, patterns[i])
        IN  <<"randn", seed[1], seed[2], NormalizeRow(Randn(seed))>>]

----------------------------------------------------------------------------
(* The scripts as sequences of steps *)

\* The statements of each script, in order, grouped into the steps that can
\* raise separately.
Program(s) ==
    CASE s = "onnx" ->
           <<"mkdir", "load", "tokenize", "export", "stat", "quantize", "vocab",
             "config", "test", "summary">>
      [] s = "tflite" ->
           <<"load", "mkdir", "encode", "save_scam", "save_legit", "test",
             "summary">>
      [] s = "tflite_fixed" ->
           <<"load", "mkdir", "save_tokenizer", "wrapper", "encode", "save_scam",
             "save_legit", "test", "summary">>
      [] s = "simple" ->
           <<"mkdir", "generate", "save_scam", "save_legit", "summary">>
      [] s = "flan_t5" ->
           <<"load", "mkdir", "save_tokenizer", "wrapper", "save_model",
             "summary">>

StepIndex(s, step) == CHOOSE i \in 1..Len(Program(s)) : Program(s)[i] = step

\* The step that follows `step` in script s, "done" after the last one.
NextPc(s, step) ==
    LET i == StepIndex(s, step)
    IN  IF i = Len(Program(s)) THEN "done" ELSE Program(s)[i + 1]

Running == pc \notin {"idle", "done", "aborted"}

At(scripts, step) == script \in scripts /\ pc = step

\* Nothing printed yet: no summary, no model named or loaded, no size reported.
NoOut == [summary |-> FALSE, model |-> "", session |-> "", vocab_size |-> -1,
          messages |-> {}]

\* The step ran to its end: control moves to the next statement.
Completed(step) ==
    /\ pc' = NextPc(script, step)
    /\ trace' = Append(trace, [step |-> step, result |-> "ok"])

\* The step raised inside a try block whose handler swallowed the exception.
Caught(step) ==
    /\ pc' = NextPc(script, step)
    /\ trace' = Append(trace, [step |-> step, result |-> "caught"])

\* A raise that is swallowed as if a blanket handler surrounded the step.
Swallowed(step) ==
    /\ pc' = NextPc(script, step)
    /\ trace' = Append(trace, [step |-> step, result |-> "failed"])

\* The step raised with no handler around it: the interpreter exits.
Raised(step) ==
    /\ pc' = "aborted"
    /\ trace' = Append(trace, [step |-> step, result |-> "failed"])

\* A write that leaves the directory as it was.
NoWrite(p, content) == UNCHANGED <<files, writer>>

\* The current run puts `content` at path p.
Write(p, content) ==
    /\ files' = [files EXCEPT ![p] = content]
    /\ writer' = [writer EXCEPT ![p] = [script |-> script, run |-> run]]

\* A write to p that raised: nothing was written yet, or the file is cut short.
FailedWrite(p) ==
    \/ UNCHANGED <<files, writer>>
    \/ Write(p, Truncated)

procVars == <<script, run, hashseed>>
memVars == <<tokenizer, final_model_path, mem_scam, mem_legit>>

----------------------------------------------------------------------------
(* Steps shared by several scripts *)

\* `python <script>.py`: a new process starts once the previous one has ended.
Start(s) ==
    /\ ~Running
    /\ run < MaxRuns
    /\ script' = s
    /\ run' = run + 1
    /\ pc' = Head(Program(s))
    /\ trace' = <<>>
    /\ out' = NoOut
    /\ hashseed' \in (IF s = "simple" THEN HashSeeds ELSE {0})
    /\ tokenizer' = NoTokenizer
    /\ final_model_path' = ""
    /\ mem_scam' = <<>>
    /\ mem_legit' = <<>>
    /\ UNCHANGED <<files, writer, poolVars, classVars>>

\* OUTPUT_DIR.mkdir(parents=True, exist_ok=True) / os.makedirs(output_dir, exist_ok=True)
Mkdir ==
    /\ At(Scripts, "mkdir")
    /\ \/ Completed("mkdir")
       \/ Raised("mkdir")
    /\ UNCHANGED <<files, writer, procVars, memVars, out, poolVars, classVars>>

\* from_pretrained / SentenceTransformer(model_name): the model and its
\* tokenizer; only the ONNX script reads the tokenizer's vocabulary afterwards.
LoadModel ==
    /\ At({"onnx", "tflite", "tflite_fixed", "flan_t5"}, "load")
    /\ \/ /\ Completed("load")
          /\ tokenizer' \in (IF script = "onnx" THEN Tokenizers ELSE {NoTokenizer})
       \/ /\ Raised("load")
          /\ UNCHANGED tokenizer
    /\ UNCHANGED <<files, writer, procVars, final_model_path, mem_scam, mem_legit, out,
                   poolVars, classVars>>

\* The wrapper class definitions of the two TFLite scripts: nothing is written.
DefineWrapper ==
    /\ At({"tflite_fixed", "flan_t5"}, "wrapper")
    /\ \/ Completed("wrapper")
       \/ Raised("wrapper")
    /\ UNCHANGED <<files, writer, procVars, memVars, out, poolVars, classVars>>

\* tokenizer.save_pretrained(...): into minilm_tokenizer/ (tflite_fixed) or
\* straight into the models directory (flan_t5), which holds tokenizer_config.json.
\* A tokenizer saved straight into the models directory by both scripts; a
\* BERT tokenizer's files include vocab.txt.
FlatTokenizerTarget(s) == IF s = "tflite_fixed" THEN VocabPath ELSE ConfigPath

\* Where save_pretrained puts the tokenizer of script s.
TokenizerTarget(s) == IF s = "tflite_fixed" THEN MiniLMTokenizerPath ELSE ConfigPath

SaveTokenizer ==
    /\ At({"tflite_fixed", "flan_t5"}, "save_tokenizer")
    /\ LET p == TokenizerTarget(script)
           content == IF script = "tflite_fixed"
                      THEN File("dir", <<<<"minilm_tokenizer", 0>>>>)
                      ELSE File("json", <<<<"t5_tokenizer", 0>>>>)
       IN  \/ /\ Completed("save_tokenizer")
              /\ Write(p, content)
           \/ /\ Raised("save_tokenizer")
              /\ FailedWrite(p)
    /\ UNCHANGED <<procVars, memVars, out, poolVars, classVars>>

\* model.encode(scam_patterns), model.encode(legitimate_patterns)
EncodePatterns ==
    /\ At({"tflite", "tflite_fixed"}, "encode")
    /\ \/ /\ Completed("encode")
          /\ mem_scam' = Encode(ScamPatterns(script))
          /\ mem_legit' = Encode(LegitPatterns(script))
       \/ /\ Raised("encode")
          /\ UNCHANGED <<mem_scam, mem_legit>>
    /\ UNCHANGED <<files, writer, procVars, tokenizer, final_model_path, out, poolVars, classVars>>

\* generate_embeddings_simple.py: the two loops over the pattern lists.
GeneratePlaceholders ==
    /\ At({"simple"}, "generate")
    /\ \/ /\ Completed("generate")
          /\ mem_scam' = Placeholder(hashseed, ScamPatterns(script))
          /\ mem_legit' = Placeholder(hashseed, LegitPatterns(script))
       \/ /\ Raised("generate")
          /\ UNCHANGED <<mem_scam, mem_legit>>
    /\ UNCHANGED <<files, writer, procVars, tokenizer, final_model_path, out, poolVars, classVars>>

\* np.save(os.path.join(output_dir, "scam_embeddings.npy"), scam_embeddings)
SaveScam ==
    /\ At({"tflite", "tflite_fixed", "simple"}, "save_scam")
    /\ \/ /\ Completed("save_scam")
          /\ Write(ScamPath, File("npy", mem_scam))
       \/ /\ Raised("save_scam")
          /\ FailedWrite(ScamPath)
    /\ UNCHANGED <<procVars, memVars, out, poolVars, classVars>>

\* np.save(os.path.join(output_dir, "legitimate_embeddings.npy"), legitimate_embeddings)
SaveLegit ==
    /\ At({"tflite", "tflite_fixed", "simple"}, "save_legit")
    /\ \/ /\ Completed("save_legit")
          /\ Write(LegitPath, File("npy", mem_legit))
       \/ /\ Raised("save_legit")
          /\ FailedWrite(LegitPath)
    /\ UNCHANGED <<procVars, memVars, out, poolVars, classVars>>

\* The encoding and similarity test of the two TFLite scripts: no try around it.
TestEncoding ==
    /\ At({"tflite", "tflite_fixed"}, "test")
    /\ \/ Completed("test")
       \/ Raised("test")
    /\ UNCHANGED <<files, writer, procVars, memVars, out, poolVars, classVars>>

\* model.save_pretrained(saved_model_dir, saved_model=True)
SaveModel ==
    /\ At({"flan_t5"}, "save_model")
    /\ \/ /\ Completed("save_model")
          /\ Write(SavedModelPath, File("dir", <<<<"flan_t5", 0>>>>))
       \/ /\ Raised("save_model")
          /\ FailedWrite(SavedModelPath)
    /\ UNCHANGED <<procVars, memVars, out, poolVars, classVars>>

\* The closing prints of a script; the ONNX one names final_model_path.
Summary ==
    /\ At(Scripts, "summary")
    /\ Completed("summary")
    /\ out' = [out EXCEPT !.summary = TRUE,
                          !.model = IF script = "onnx" THEN final_model_path ELSE ""]
    /\ UNCHANGED <<files, writer, procVars, memVars, poolVars, classVars>>

----------------------------------------------------------------------------
(* convert_minilm_to_onnx.py *)

OnnxModel == File("onnx", <<<<"float32", 0>>>>)

QuantizedModel == File("onnx", <<<<"quint8", 0>>>>)

\* tokenizer(dummy_text, ...): the dummy input for tracing.
TokenizeDummy ==
    /\ At({"onnx"}, "tokenize")
    /\ \/ Completed("tokenize")
       \/ Raised("tokenize")
    /\ UNCHANGED <<files, writer, procVars, memVars, out, poolVars, classVars>>

\* torch.onnx.export(model, ..., str(onnx_model_path), ...)
ExportOnnx ==
    /\ At({"onnx"}, "export")
    /\ \/ /\ Completed("export")
          /\ Write(OnnxPath, OnnxModel)
       \/ /\ Raised("export")
          /\ FailedWrite(OnnxPath)
    /\ UNCHANGED <<procVars, memVars, out, poolVars, classVars>>

\* original_size = onnx_model_path.stat().st_size / (1024 * 1024), and prints
StatOnnx ==
    /\ At({"onnx"}, "stat")
    /\ \/ Completed("stat")
       \/ Raised("stat")
    /\ UNCHANGED <<files, writer, procVars, memVars, out, poolVars, classVars>>

\* The places where the quantization try block can raise.
QuantizeFailures == {"import", "quantize_dynamic", "stat"}

\* An except branch that keeps the quantized path.
QuantizedFallback == QuantizedPath

\* The path the except branch of the quantization block assigns.
FallbackModelPath == OnnxPath

\* Step 3, the try/except around quantization: final_model_path is assigned
\* on both branches.
Quantize ==
    /\ At({"onnx"}, "quantize")
    /\ \/ /\ Completed("quantize")
          /\ Write(QuantizedPath, QuantizedModel)
          /\ final_model_path' = QuantizedPath
          /\ UNCHANGED out
       \/ /\ Caught("quantize")
          /\ \E failure \in QuantizeFailures :
                CASE failure = "import" -> UNCHANGED <<files, writer>>
                  [] failure = "quantize_dynamic" -> FailedWrite(QuantizedPath)
                  [] failure = "stat" -> Write(QuantizedPath, QuantizedModel)
          /\ final_model_path' = FallbackModelPath
          /\ out' = [out EXCEPT !.messages = @ \cup {"Quantization failed"}]
    /\ UNCHANGED <<procVars, tokenizer, mem_scam, mem_legit, poolVars, classVars>>

\* The lines left in vocab.txt by a vocabulary export that raised part-way.
PartialVocab(t) ==
    {File("txt", SubSeq(VocabLines(t), 1, k)) : k \in 0..(Len(VocabLines(t)) - 1)}

\* The size the vocabulary step prints: len(vocab).
PrintedVocabSize(t) == Cardinality(GetVocab(t))

\* Step 4: vocab.txt, one token per line in token-id order, and the size print.
ExportVocab ==
    /\ At({"onnx"}, "vocab")
    /\ \/ /\ Completed("vocab")
          /\ Write(VocabPath, File("txt", VocabLines(tokenizer)))
          /\ out' = [out EXCEPT !.vocab_size = PrintedVocabSize(tokenizer)]
       \/ /\ Raised("vocab")
          /\ \/ UNCHANGED <<files, writer>>
             \/ \E f \in PartialVocab(tokenizer) : Write(VocabPath, f)
          /\ UNCHANGED out
    /\ UNCHANGED <<procVars, memVars, poolVars, classVars>>

\* Step 5: tokenizer_config.json
ExportConfig ==
    /\ At({"onnx"}, "config")
    /\ \/ /\ Completed("config")
          /\ Write(ConfigPath, File("json", TokenizerConfig(tokenizer)))
       \/ /\ Raised("config")
          /\ FailedWrite(ConfigPath)
    /\ UNCHANGED <<procVars, memVars, out, poolVars, classVars>>

\* A handler that lets the exception of the inference test escape.
TestReraise(step) == Raised(step)

\* except Exception around the inference test: the exception is swallowed.
TestExcept(step) == Caught(step)

\* The operations inside the inference test's try block that can raise.
TestFailures == {"import", "session", "tokenize", "run", "pooling"}

\* Step 6, the try/except around the inference test: nothing is written, and
\* the handler only prints. The session is opened on final_model_path.
TestInference ==
    /\ At({"onnx"}, "test")
    /\ \/ /\ Completed("test")
          /\ out' = [out EXCEPT !.messages = @ \cup {"Test inference successful"},
                                !.session = final_model_path]
       \/ /\ TestExcept("test")
          /\ \E failure \in TestFailures :
                out' = [out EXCEPT !.messages = @ \cup {"Test inference failed"},
                                   !.session = IF failure = "import" THEN ""
                                               ELSE final_model_path]
    /\ UNCHANGED <<files, writer, procVars, memVars, poolVars, classVars>>

----------------------------------------------------------------------------
(* Spec: runs of the scripts against the common models directory *)

PoolIdle ==
    /\ last_hidden_state = <<>>
    /\ attention_mask = <<>>
    /\ input_mask_expanded = <<>>
    /\ sum_embeddings = <<>>
    /\ sum_mask = <<>>
    /\ embedding = <<>>
    /\ ppc = "idle"

ClassIdle ==
    /\ test_embedding = <<>>
    /\ scam_embeddings = <<>>
    /\ legitimate_embeddings = <<>>
    /\ scam_sim = <<>>
    /\ legit_sim = <<>>
    /\ classification = ""
    /\ cpc = "idle"

ScriptsIdle ==
    /\ files = [p \in Paths |-> NoFile]
    /\ writer = [p \in Paths |-> NoWriter]
    /\ script = "none"
    /\ pc = "idle"
    /\ run = 0
    /\ trace = <<>>
    /\ out = NoOut
    /\ hashseed = 0
    /\ tokenizer = NoTokenizer
    /\ final_model_path = ""
    /\ mem_scam = <<>>
    /\ mem_legit = <<>>

Init == ScriptsIdle /\ PoolIdle /\ ClassIdle

\* Some script is started.
StartScript == \E s \in Scripts : Start(s)

Next ==
    \/ StartScript
    \/ Mkdir
    \/ LoadModel
    \/ DefineWrapper
    \/ SaveTokenizer
    \/ EncodePatterns
    \/ GeneratePlaceholders
    \/ SaveScam
    \/ SaveLegit
    \/ TestEncoding
    \/ SaveModel
    \/ TokenizeDummy
    \/ ExportOnnx
    \/ StatOnnx
    \/ Quantize
    \/ ExportVocab
    \/ ExportConfig
    \/ TestInference
    \/ Summary

Spec == Init /\ [][Next]_vars

----------------------------------------------------------------------------
(* SpecPool: mean pooling and normalisation of the ONNX inference test *)

\* The test text is one string: tensors of batch size 1.
Batch == 1

\* 1e-9, the a_min of np.clip, is 1 / EpsilonDen.
EpsilonDen == 1000000000

\* Entries of the hidden states the encoder may return, and of a 0/1 mask.
HiddenValues == {-1, 0, 2}

MaskValues == {0, 1}

\* np.expand_dims(attention_mask, -1) broadcast to last_hidden_state.shape.
BroadcastMask(mask) ==
    [b \in 1..Batch |-> [t \in 1..SeqLen |-> [d \in 1..HiddenDim |-> mask[b][t]]]]

\* A product that leaves the mask out.
Unmasked(h, m) == h

\* One entry of last_hidden_state * input_mask_expanded.
MaskedProduct(h, m) == h * m

\* np.sum(last_hidden_state * input_mask_expanded, axis=1)
SumEmbeddings(hidden, expanded) ==
    [b \in 1..Batch |-> [d \in 1..HiddenDim |->
        SumSeq([t \in 1..SeqLen |-> MaskedProduct(hidden[b][t][d], expanded[b][t][d])])]]

\* A mask sum that is not clamped.
Unclipped(x) == <<x, 1>>

\* np.clip(x, a_min=1e-9, a_max=None) of an integer x, as a rational.
\* (x < 1e-9 is x < 1 for an integer).
ClipMin(x) == IF x < 1 THEN <<1, EpsilonDen>> ELSE <<x, 1>>

\* np.clip(input_mask_expanded.sum(axis=1), a_min=1e-9, a_max=None)
SumMask(expanded) ==
    [b \in 1..Batch |-> [d \in 1..HiddenDim |->
        ClipMin(SumSeq([t \in 1..SeqLen |-> expanded[b][t][d]]))]]

\* A pooling that forgets the division by the mask sum.
Undivided(total, count) == <<total, 1>>

\* One entry of sum_embeddings / sum_mask: the integer total over the
\* rational count, reduced before multiplying.
Quotient(total, count) ==
    LET g == GCD(total, count[1])
    IN  IF total = 0 THEN <<0, 1>>
        ELSE <<(total \div g) * count[2], count[1] \div g>>

\* sum_embeddings / sum_mask
MeanPool(sums, counts) ==
    [b \in 1..Batch |-> [d \in 1..HiddenDim |-> Quotient(sums[b][d], counts[b][d])]]

\* norm = np.linalg.norm(embedding, axis=1, keepdims=True); embedding / norm
Normalize(pooled) == [b \in 1..Batch |-> NormalizeRow(pooled[b])]

HiddenStates == [1..Batch -> [1..SeqLen -> [1..HiddenDim -> HiddenValues]]]

AttentionMasks == [1..Batch -> [1..SeqLen -> MaskValues]]

\* session.run has returned last_hidden_state for the tokenized test text.
PoolInit ==
    /\ ScriptsIdle
    /\ ClassIdle
    /\ last_hidden_state \in HiddenStates
    /\ attention_mask \in AttentionMasks
    /\ input_mask_expanded = <<>>
    /\ sum_embeddings = <<>>
    /\ sum_mask = <<>>
    /\ embedding = <<>>
    /\ ppc = "expand"

ExpandMask ==
    /\ ppc = "expand"
    /\ input_mask_expanded' = BroadcastMask(attention_mask)
    /\ ppc' = "sum"
    /\ UNCHANGED <<last_hidden_state, attention_mask, sum_embeddings, sum_mask, embedding,
                   scriptVars, classVars>>

SumMasked ==
    /\ ppc = "sum"
    /\ sum_embeddings' = SumEmbeddings(last_hidden_state, input_mask_expanded)
    /\ sum_mask' = SumMask(input_mask_expanded)
    /\ ppc' = "mean"
    /\ UNCHANGED <<last_hidden_state, attention_mask, input_mask_expanded, embedding,
                   scriptVars, classVars>>

Pool ==
    /\ ppc = "mean"
    /\ embedding' = MeanPool(sum_embeddings, sum_mask)
    /\ ppc' = "normalize"
    /\ UNCHANGED <<last_hidden_state, attention_mask, input_mask_expanded, sum_embeddings,
                   sum_mask, scriptVars, classVars>>

NormalizeEmbedding ==
    /\ ppc = "normalize"
    /\ embedding' = Normalize(embedding)
    /\ ppc' = "done"
    /\ UNCHANGED <<last_hidden_state, attention_mask, input_mask_expanded, sum_embeddings,
                   sum_mask, scriptVars, classVars>>

PoolNext ==
    \/ ExpandMask
    \/ SumMasked
    \/ Pool
    \/ NormalizeEmbedding

SpecPool == PoolInit /\ [][PoolNext]_vars

----------------------------------------------------------------------------
(* SpecClassify: the similarity test of the convert_minilm_to_tflite scripts *)

\* Embedding rows used in the test, two components each.
EmbeddingRows == {<<1, 0>>, <<1, 1>>, <<0, 1>>, <<-1, 1>>}

\* Reference sets: between 1 and MaxRefs rows.
ReferenceSets == UNION {[1..n -> EmbeddingRows] : n \in 1..MaxRefs}

Dot(u, v) == SumSeq([d \in DOMAIN u |-> u[d] * v[d]])

\* The cosine of the angle between u and v, kept exactly as <<sign, n, d>>,
\* standing for sign * sqrt(n / d); a zero row has similarity 0.
Cosine(u, v) ==
    LET dot == Dot(u, v)
        den == SumOfSquares(u) * SumOfSquares(v)
    IN  IF den = 0 THEN <<0, 0, 1>> ELSE <<Sign(dot)>> \o Rat(dot * dot, den)

\* cosine_similarity(test_embedding, refs): one similarity per reference row.
CosineSimilarity(query, refs) == [i \in DOMAIN refs |-> Cosine(query, refs[i])]

\* a > b for similarities kept as <<sign, n, d>>.
Greater(a, b) == a[1] * a[2] * b[3] > b[1] * b[2] * a[3]

\* A reduction that keeps the last similarity.
LastOf(sims) == sims[Len(sims)]

\* .max(): the largest entry, scanning the array in order.
RECURSIVE MaxOf(_)
MaxOf(sims) ==
    IF Len(sims) = 1 THEN sims[1]
    ELSE LET m == MaxOf(SubSeq(sims, 1, Len(sims) - 1))
         IN  IF Greater(sims[Len(sims)], m) THEN sims[Len(sims)] ELSE m

\* A comparison that gives ties to the scam side.
ClassifyOrEqual(s, l) == IF ~Greater(l, s) THEN "SCAM" ELSE "LEGITIMATE"

\* 'SCAM' if scam_sim > legit_sim else 'LEGITIMATE'
Classify(s, l) == IF Greater(s, l) THEN "SCAM" ELSE "LEGITIMATE"

\* The test text and the two reference sets have been encoded.
ClassInit ==
    /\ ScriptsIdle
    /\ PoolIdle
    /\ test_embedding \in EmbeddingRows
    /\ scam_embeddings \in ReferenceSets
    /\ legitimate_embeddings \in ReferenceSets
    /\ scam_sim = <<>>
    /\ legit_sim = <<>>
    /\ classification = ""
    /\ cpc = "scam_sim"

\* scam_sim = cosine_similarity(test_embedding, scam_embeddings).max()
ComputeScamSim ==
    /\ cpc = "scam_sim"
    /\ scam_sim' = MaxOf(CosineSimilarity(test_embedding, scam_embeddings))
    /\ cpc' = "legit_sim"
    /\ UNCHANGED <<test_embedding, scam_embeddings, legitimate_embeddings, legit_sim,
                   classification, scriptVars, poolVars>>

\* legit_sim = cosine_similarity(test_embedding, legitimate_embeddings).max()
ComputeLegitSim ==
    /\ cpc = "legit_sim"
    /\ legit_sim' = MaxOf(CosineSimilarity(test_embedding, legitimate_embeddings))
    /\ cpc' = "classify"
    /\ UNCHANGED <<test_embedding, scam_embeddings, legitimate_embeddings, scam_sim,
                   classification, scriptVars, poolVars>>

\* print(f"  Classification: {...}")
PrintClassification ==
    /\ cpc = "classify"
    /\ classification' = Classify(scam_sim, legit_sim)
    /\ cpc' = "done"
    /\ UNCHANGED <<test_embedding, scam_embeddings, legitimate_embeddings, scam_sim,
                   legit_sim, scriptVars, poolVars>>

ClassNext ==
    \/ ComputeScamSim
    \/ ComputeLegitSim
    \/ PrintClassification

SpecClassify == ClassInit /\ [][ClassNext]_vars

----------------------------------------------------------------------------
(* SpecEmbeddings: the two places that produce unit-length embeddings, the *)
(* pooling of the inference test and generate_embeddings_simple.py         *)

EmbeddingsInit == Init \/ PoolInit

\* generate_embeddings_simple.py is started; no inference test is under way.
StartSimple ==
    /\ ppc = "idle"
    /\ Start("simple")

EmbeddingsNext ==
    \/ StartSimple
    \/ Mkdir
    \/ GeneratePlaceholders
    \/ SaveScam
    \/ SaveLegit
    \/ Summary
    \/ ExpandMask
    \/ SumMasked
    \/ Pool
    \/ NormalizeEmbedding

SpecEmbeddings == EmbeddingsInit /\ [][EmbeddingsNext]_vars

----------------------------------------------------------------------------
(* Claims about the runs of the scripts *)

\* The current run took `step` with outcome `result`.
TraceHas(step, result) ==
    \E i \in DOMAIN trace : trace[i] = [step |-> step, result |-> result]

\* The current run took `step` and the step raised (caught or not).
StepRaised(step) ==
    \E i \in DOMAIN trace : trace[i].step = step /\ trace[i].result # "ok"

\* The model file the ONNX run names wherever it has named one so far.
FinalModelIs(p) ==
    /\ final_model_path = p
    /\ out.session \in {"", p}
    /\ out.summary => out.model = p

\* C2: in convert_minilm_to_onnx.py a failure of the quantization step is
\* caught and the run goes on to the vocabulary step with the unquantized
\* ONNX file as the final model (the one the inference test opens and the
\* summary names); when the quantization step completes, the final model is
\* the quantized file.
C2_QuantizationFallback ==
    script = "onnx" =>
        /\ TraceHas("quantize", "caught") => FinalModelIs(OnnxPath)
        /\ TraceHas("quantize", "ok") => FinalModelIs(QuantizedPath)
        /\ (trace # <<>> /\ trace[Len(trace)].step = "quantize") => pc = "vocab"

C2_Witness ==
    /\ script = "onnx"
    /\ pc = "done"
    /\ TraceHas("quantize", "caught")
    /\ out.session = OnnxPath
    /\ out.summary
    /\ out.model = OnnxPath

\* A step of the current run raised and the run is over at that step, with
\* no later step taken and no summary printed.
PropagatedAt(i) ==
    /\ pc = "aborted"
    /\ i = Len(trace)
    /\ ~out.summary

\* A step of the current run raised and the run went on with the next step.
ContinuedAt(i) ==
    \/ i < Len(trace)
    \/ pc = NextPc(script, trace[i].step)

\* C3 as stated: quantization is the only step whose failure is caught; a
\* failure in any other step, the inference test included, ends the run at
\* that step, so that no later step executes and no summary is printed.
C3_OnlyQuantizationCaught ==
    \A i \in DOMAIN trace :
        (trace[i].result # "ok" /\ trace[i].step # "quantize") => PropagatedAt(i)

\* C3 amended: the failures that are caught are those of the quantization
\* step and of the inference test of convert_minilm_to_onnx.py; a failure in
\* any other step of any script ends the run at that step, so that no later
\* step executes and no summary is printed.
C3_CaughtOnlyInOnnxTryBlocks ==
    \A i \in DOMAIN trace :
        trace[i].result # "ok" =>
            IF script = "onnx" /\ trace[i].step \in {"quantize", "test"}
            THEN trace[i].result = "caught" /\ ContinuedAt(i)
            ELSE trace[i].result = "failed" /\ PropagatedAt(i)

C3_Witness ==
    /\ script = "tflite_fixed"
    /\ pc = "aborted"
    /\ trace[Len(trace)] = [step |-> "test", result |-> "failed"]
    /\ ~out.summary

\* C4: in convert_minilm_to_onnx.py a failure inside the inference test does
\* not stop the run: control is at the summary, which has no way to fail and
\* prints EXPORT COMPLETE, and the inference test, failed or not, changes no
\* file of the models directory.
C4_InferenceTestBestEffort ==
    /\ [](script = "onnx" /\ StepRaised("test") =>
            /\ pc \in {"summary", "done"}
            /\ pc = "summary" => ENABLED Summary
            /\ pc = "done" => out.summary)
    /\ [][At({"onnx"}, "summary") => pc' = "done" /\ out'.summary]_vars
    /\ [][At({"onnx"}, "test") => files' = files]_vars

C4_Witness ==
    /\ script = "onnx"
    /\ TraceHas("test", "caught")
    /\ out.summary
    /\ files[OnnxPath] = OnnxModel
    /\ files[VocabPath] = File("txt", VocabLines(tokenizer))
    /\ files[ConfigPath] = File("json", TokenizerConfig(tokenizer))

\* The paths that more than one script writes.
SharedPaths == {ScamPath, LegitPath, ConfigPath}

\* Path p holds what another script than the one now running wrote.
WrittenByOther(p) == writer[p].script \notin {"none", script'}

\* C5 as stated: a run of one script leaves every output artifact produced
\* by another script unchanged (no path is written by more than one script).
C5_NoSharedOutputPath ==
    [][\A p \in Paths : WrittenByOther(p) => files'[p] = files[p]]_vars

\* C5 amended: the scripts share no state but the models directory, where
\* scam_embeddings.npy, legitimate_embeddings.npy and tokenizer_config.json
\* are each written by more than one script and hold what the last script
\* to write them left; every other artifact is written by one script only
\* and a run of any other script leaves it unchanged.
C5_OnlySharedPathsOverwritten ==
    [][\A p \in Paths :
          /\ (WrittenByOther(p) /\ p \notin SharedPaths) => files'[p] = files[p]
          /\ files'[p] # files[p] => writer'[p] = [script |-> script', run |-> run']
      ]_vars

C5_Witness ==
    /\ run = 2
    /\ script = "flan_t5"
    /\ pc = "done"
    /\ writer[VocabPath] = [script |-> "onnx", run |-> 1]
    /\ files[VocabPath].fmt = "txt"
    /\ writer[OnnxPath] = [script |-> "onnx", run |-> 1]
    /\ writer[ConfigPath] = [script |-> "flan_t5", run |-> 2]

\* C6: two runs of generate_embeddings_simple.py derive the same seeds from
\* the patterns, so a rerun that saves scam_embeddings.npy and
\* legitimate_embeddings.npy leaves each with the content the earlier run
\* of the script saved.
C6_RerunWritesSameEmbeddings ==
    [][/\ (/\ At({"simple"}, "save_scam")
           /\ pc' = "save_legit"
           /\ writer[ScamPath].script = "simple"
           /\ files[ScamPath].fmt = "npy") => files'[ScamPath] = files[ScamPath]
       /\ (/\ At({"simple"}, "save_legit")
           /\ pc' = "summary"
           /\ writer[LegitPath].script = "simple"
           /\ files[LegitPath].fmt = "npy") => files'[LegitPath] = files[LegitPath]
      ]_vars

\* The id that the dict `vocab` gives the token.
IdOf(token, vocab) == (CHOOSE x \in vocab : x[1] = token)[2]

\* Line i of vocab.txt is the token with the i-th smallest id of `vocab`.
InIdOrder(lines, vocab) ==
    \A i \in DOMAIN lines :
        /\ \E x \in vocab : x[1] = lines[i][2]
        /\ Cardinality({x \in vocab : x[2] < IdOf(lines[i][2], vocab)}) = i - 1

\* The vocabulary step of the current ONNX run has completed.
VocabExported == script = "onnx" /\ TraceHas("vocab", "ok")

\* The tokenizer-config step of the current ONNX run has completed.
ConfigExported == script = "onnx" /\ TraceHas("config", "ok")

\* The vocab_size field of the tokenizer_config.json on disk.
ConfigVocabSize == files[ConfigPath].data[1][2]

----------------------------------------------------------------------------
(* Claims about the classification test *)

\* C1: the printed classification is SCAM if and only if scam_sim is
\* strictly greater than legit_sim; in every other case, equal similarities
\* included, it is LEGITIMATE.
C1_ScamIffStrictlyGreater ==
    cpc = "done" =>
        /\ classification \in {"SCAM", "LEGITIMATE"}
        /\ classification = "SCAM" <=> Greater(scam_sim, legit_sim)
        /\ scam_sim = legit_sim => classification = "LEGITIMATE"

C1_Witness ==
    /\ cpc = "done"
    /\ scam_sim = legit_sim
    /\ classification = "LEGITIMATE"

\* The rows of refs in the order given by the permutation f.
Permuted(refs, f) == [i \in DOMAIN refs |-> refs[f[i]]]

\* C10: permuting the rows within the scam set or within the legitimate set
\* changes neither of the two maximum similarities nor the classification,
\* which is a function of the query and the two sets.
C10_ReorderingInvariant ==
    cpc = "done" =>
        \A f \in Permutations(DOMAIN scam_embeddings) :
            \A g \in Permutations(DOMAIN legitimate_embeddings) :
                LET s == MaxOf(CosineSimilarity(test_embedding,
                                                Permuted(scam_embeddings, f)))
                    l == MaxOf(CosineSimilarity(test_embedding,
                                                Permuted(legitimate_embeddings, g)))
                IN  /\ s = scam_sim
                    /\ l = legit_sim
                    /\ Classify(s, l) = classification

C10_Witness ==
    /\ cpc = "done"
    /\ Len(scam_embeddings) = 2
    /\ Greater(Cosine(test_embedding, scam_embeddings[1]),
               Cosine(test_embedding, scam_embeddings[2]))
    /\ Len(legitimate_embeddings) = 2
    /\ Greater(Cosine(test_embedding, legitimate_embeddings[2]),
               Cosine(test_embedding, legitimate_embeddings[1]))
    /\ classification = "SCAM"

----------------------------------------------------------------------------
(* Claims about mean pooling *)

\* Every position of batch element b is unmasked.
AllOnes(b) == \A t \in 1..SeqLen : attention_mask[b][t] = 1

\* The positions of batch element b that are unmasked.
UnmaskedPositions(b) == {t \in 1..SeqLen : attention_mask[b][t] = 1}

\* C8: for an attention mask that is all ones, the pooled vector (before
\* normalisation) is, per batch element, the arithmetic mean of the token
\* vectors along the sequence axis: each entry times the sequence length is
\* the sum of that entry over the tokens.
C8_AllOnesIsArithmeticMean ==
    ppc = "normalize" =>
        \A b \in 1..Batch :
            AllOnes(b) =>
                \A d \in 1..HiddenDim :
                    /\ embedding[b][d][2] > 0
                    /\ embedding[b][d][1] * SeqLen =
                          embedding[b][d][2]
                          * SumSeq([t \in 1..SeqLen |-> last_hidden_state[b][t][d]])

C8_Witness ==
    /\ ppc = "normalize"
    /\ \A b \in 1..Batch : AllOnes(b)
    /\ \E d \in 1..HiddenDim : embedding[1][d] = <<1, SeqLen>>

\* The sum of the squares of the entries <<sign, n, d>> of a normalised row is 1.
UnitLength(row) ==
    LET squares == [d \in DOMAIN row |-> <<row[d][2], row[d][3]>>]
    IN  SumSeq(Numerators(squares)) = ProductOf([d \in DOMAIN row |-> row[d][3]])

\* C9: for a mask with exactly one unmasked position per batch element, the
\* pooled vector is exactly the token vector at that position, whatever the
\* hidden states at the masked positions, and the normalisation that follows
\* scales it to unit length (a token vector that is zero has no direction:
\* the division by its zero norm leaves 0/0 in every entry).
C9_SingleUnmaskedIsThatToken ==
    \A b \in 1..Batch :
        Cardinality(UnmaskedPositions(b)) = 1 =>
            LET token == last_hidden_state[b][CHOOSE t \in UnmaskedPositions(b) : TRUE]
            IN  /\ ppc = "normalize" =>
                      \A d \in 1..HiddenDim : embedding[b][d] = <<token[d], 1>>
                /\ ppc = "done" =>
                      IF SumOfSquares(token) = 0
                      THEN \A d \in 1..HiddenDim : embedding[b][d] = <<0, 0, 0>>
                      ELSE /\ UnitLength(embedding[b])
                           /\ \A d \in 1..HiddenDim :
                                 /\ embedding[b][d][1] = Sign(token[d])
                                 /\ embedding[b][d][2] * SumOfSquares(token) =
                                       embedding[b][d][3] * token[d] * token[d]

C9_Witness ==
    /\ ppc = "done"
    /\ attention_mask[1][1] = 0
    /\ Cardinality(UnmaskedPositions(1)) = 1
    /\ last_hidden_state[1][1][1] = 2
    /\ embedding[1][1] = <<-1, 1, 5>>
    /\ embedding[1][2] = <<1, 4, 5>>

----------------------------------------------------------------------------
(* Claims about the norm of the embeddings *)

\* Batch element b is not degenerate: some position is unmasked and the
\* pooled vector is not zero.
NonDegenerate(b) ==
    /\ UnmaskedPositions(b) # {}
    /\ \E d \in 1..HiddenDim : sum_embeddings[b][d] # 0

\* The rows of the reference embeddings held in memory or saved by a run of
\* generate_embeddings_simple.py.
PlaceholderRows ==
    UNION {{mem_scam[i] : i \in DOMAIN mem_scam},
           {mem_legit[i] : i \in DOMAIN mem_legit},
           {files[ScamPath].data[i] : i \in DOMAIN files[ScamPath].data},
           {files[LegitPath].data[i] : i \in DOMAIN files[LegitPath].data}}

\* C11: for every non-degenerate input (a mask with at least one unmasked
\* position and a pooled vector that is not zero) each row of the embedding
\* the mean-pooling encoder produces has L2 norm 1, and each placeholder
\* reference embedding of generate_embeddings_simple.py has L2 norm 1.
C11_UnitNorm ==
    /\ ppc = "done" =>
          \A b \in 1..Batch : NonDegenerate(b) => UnitLength(embedding[b])
    /\ \A row \in PlaceholderRows : UnitLength(row[4])

C11_Witness ==
    /\ ppc = "done"
    /\ Cardinality(UnmaskedPositions(1)) = 2
    /\ NonDegenerate(1)
    /\ \E d \in 1..HiddenDim : embedding[1][d][3] > 1
    /\ UnitLength(embedding[1])

\* A run of generate_embeddings_simple.py has saved both files of rows of norm 1.
C11_PlaceholderWitness ==
    /\ script = "simple"
    /\ pc = "done"
    /\ Len(files[ScamPath].data) = 16
    /\ Len(files[LegitPath].data) = 8
    /\ \A row \in PlaceholderRows : UnitLength(row[4])
    /\ \E row \in PlaceholderRows : row[4][1][3] > 1

----------------------------------------------------------------------------
(* Claims about the degenerate inputs of the pooling *)

\* 0 / 0 as the normalisation leaves it.
NaN == <<0, 0, 0>>

\* C12: for every binary attention mask, the all-zero mask included, the
\* denominator of the mean pooling is strictly positive (the mask sum is
\* clamped from below at 1e-9), so the pooling divides by no zero; for a
\* sequence that is masked entirely the pooled vector is the zero vector,
\* and the L2 normalisation that follows is not guarded against that zero
\* norm: it divides 0 by 0 in every entry.
C12_PositiveDenominatorUnguardedNorm ==
    \A b \in 1..Batch :
        /\ ppc \in {"mean", "normalize", "done"} =>
              \A d \in 1..HiddenDim :
                  /\ sum_mask[b][d][1] > 0
                  /\ sum_mask[b][d][2] > 0
                  /\ UnmaskedPositions(b) = {} => sum_mask[b][d] = <<1, EpsilonDen>>
        /\ (ppc = "normalize" /\ UnmaskedPositions(b) = {}) =>
              \A d \in 1..HiddenDim : embedding[b][d] = <<0, 1>>
        /\ (ppc = "done" /\ UnmaskedPositions(b) = {}) =>
              \A d \in 1..HiddenDim : embedding[b][d] = NaN

C12_Witness ==
    /\ ppc = "done"
    /\ UnmaskedPositions(1) = {}
    /\ \A t \in 1..SeqLen : \E d \in 1..HiddenDim : last_hidden_state[1][t][d] # 0
    /\ sum_mask[1][1] = <<1, EpsilonDen>>
    /\ embedding[1][1] = NaN

----------------------------------------------------------------------------
(* Claims about the reference embedding set on disk *)

OnDisk(p) == files[p] # NoFile

\* The row counts of the two files on disk.
RowCounts == <<Len(files[ScamPath].data), Len(files[LegitPath].data)>>

\* The pattern counts of the three scripts that save reference embeddings.
PatternCounts ==
    {<<Len(ScamPatterns(s)), Len(LegitPatterns(s))>> : s \in {"tflite", "tflite_fixed", "simple"}}

\* The scam file is of a later run than the legitimate file next to it.
MixedGenerations ==
    /\ ~Running
    /\ OnDisk(ScamPath)
    /\ OnDisk(LegitPath)
    /\ writer[ScamPath].run > writer[LegitPath].run
    /\ files[ScamPath].fmt = "npy"
    /\ files[LegitPath].fmt = "npy"
    /\ RowCounts \notin PatternCounts

\* C13: the reference embedding set is replaced wholesale: whenever no
\* script is running, also after a run that aborted partway, the files
\* scam_embeddings.npy and legitimate_embeddings.npy on disk were both
\* written by the same run of the same script, so that their row counts are
\* the pattern counts of one script (16 and 8, or 24 and 12), never a mix of
\* two generations.
C13_ReplacedWholesale ==
    (~Running /\ OnDisk(ScamPath) /\ OnDisk(LegitPath)) =>
        /\ writer[ScamPath] = writer[LegitPath]
        /\ RowCounts \in PatternCounts

----------------------------------------------------------------------------
(* Claims about the final model of convert_minilm_to_onnx.py *)

\* The steps of the ONNX run from the vocabulary export on.
FromVocabExport == {"vocab", "config", "test", "summary", "done"}

\* The current ONNX run has reached the vocabulary export step.
ReachedVocabExport ==
    /\ script = "onnx"
    /\ \/ pc \in FromVocabExport
       \/ \E i \in DOMAIN trace : trace[i].step \in FromVocabExport

\* Path p names a model file that is on disk in full.
ModelExists(p) ==
    /\ p \in Paths
    /\ files[p].fmt = "onnx"
    /\ files[p].data # <<>>

\* C14: in convert_minilm_to_onnx.py, on every path that reaches the
\* vocabulary export step, final_model_path is one of the two model paths
\* and the file it names exists: it is the quantized path only if
\* quantize_dynamic returned and the size of the quantized file was read
\* (the quantization step completed), and otherwise the path of the
\* unquantized ONNX file, whose export and size check already succeeded.
\* Before the quantization step final_model_path is not assigned.
C14_FinalModelExists ==
    /\ ReachedVocabExport =>
          /\ final_model_path \in {OnnxPath, QuantizedPath}
          /\ ModelExists(final_model_path)
          /\ TraceHas("export", "ok")
          /\ TraceHas("stat", "ok")
          /\ ModelExists(OnnxPath)
          /\ final_model_path = QuantizedPath <=> TraceHas("quantize", "ok")
          /\ final_model_path = OnnxPath <=> TraceHas("quantize", "caught")
    /\ (script = "onnx" /\ ~ReachedVocabExport) =>
          \/ final_model_path = ""
          \/ pc = "aborted" /\ final_model_path \in {OnnxPath, QuantizedPath}

\* The quantization failed with a quantized file cut short on disk, and the
\* vocabulary export runs with the unquantized model as the final one.
C14_Witness ==
    /\ script = "onnx"
    /\ pc = "vocab"
    /\ TraceHas("quantize", "caught")
    /\ files[QuantizedPath] = Truncated
    /\ final_model_path = OnnxPath
    /\ ModelExists(OnnxPath)

====
